---- MODULE Spec2Model ----
(***************************************************************************)
(* A model of demo/python-files/imports-modules.py: the configuration      *)
(* store (class ConfigManager) and the batch processor (class              *)
(* DataProcessor), with the JSON file behind the store.                    *)
(*                                                                         *)
(* Python values are tagged records (PyInt, PyStr, ...), JSON documents    *)
(* are tagged records of their own (JNumber, JString, ...); json.dump and  *)
(* json.load are the conversions between the two.  Equality of values is   *)
(* structural.  Dict objects have an identity: heap holds the content of    *)
(* each, config_ref and proc_ref say which one a self.config is bound to,  *)
(* and config and proc_config are the contents read through them.          *)
(***************************************************************************)
EXTENDS Integers, Sequences, FiniteSets, TLC

VARIABLES
    file,            \* the backing file at config_path
    config,          \* ConfigManager.config
    out,             \* what the last ConfigManager call did (op, exception, print, return)
    before,          \* ConfigManager.config when the last ConfigManager call began
    saved,           \* the config the file's content was written from, while that holds
    open_files,      \* the file objects ConfigManager calls have opened and not closed
    config_ref,      \* the dict object ConfigManager.config is bound to
    heap,            \* the content of each dict object
    now,             \* the clock dt.now() reads
    proc_config,     \* DataProcessor.config
    created_at,      \* DataProcessor.created_at
    processed_count, \* DataProcessor.processed_count
    proc_out,        \* what the last DataProcessor call did (op, argument, return)
    count_before,    \* processed_count when the last process_batch call began
    total_success,   \* success results returned by all process_batch calls so far
    proc_ref,        \* the dict object DataProcessor.config is bound to
    stats,           \* the last get_stats return the caller holds: its config entry's object
    caller,          \* what the caller last did to a dict it holds
    threads          \* each thread's place in the process_batch call it runs

store_vars == <<file, config, out, before, saved, open_files, config_ref>>
proc_vars ==
    <<now, proc_config, created_at, processed_count, proc_out, count_before, total_success,
      proc_ref, stats, caller, threads>>
vars ==
    <<file, config, out, before, saved, open_files, config_ref, heap, now, proc_config,
      created_at, processed_count, proc_out, count_before, total_success, proc_ref, stats,
      caller, threads>>

\* ------------------------------------------------------------ bounds

MaxBatch == 3
MaxCount == 3
MaxTime == 1

\* ----------------------------------------------------- Python values

EmptyMap == [k \in {} |-> 0]

PyInt(n) == [tag |-> "int", n |-> n]
PyStr(s) == [tag |-> "str", s |-> s]
PyBool(b) == [tag |-> "bool", b |-> b]
PyNone == [tag |-> "NoneType"]
PyDict(m) == [tag |-> "dict", m |-> m]
PyList(a) == [tag |-> "list", a |-> a]
PyTuple(a) == [tag |-> "tuple", a |-> a]
PySet == [tag |-> "set"]

IsDict(v) == v.tag = "dict"

\* ------------------------------------------------------ JSON documents

JNumber(n) == [tag |-> "number", n |-> n]
JString(s) == [tag |-> "string", s |-> s]
JTrue == [tag |-> "true"]
JFalse == [tag |-> "false"]
JNull == [tag |-> "null"]
JObject(m) == [tag |-> "object", m |-> m]
JArray(a) == [tag |-> "array", a |-> a]

\* What json.dump accepts: the basic types, and dicts, lists and tuples of them.
RECURSIVE Serializable(_)
Serializable(v) ==
    CASE v.tag \in {"int", "str", "bool", "NoneType"} -> TRUE
      [] v.tag = "dict" -> \A k \in DOMAIN v.m : Serializable(v.m[k])
      [] v.tag \in {"list", "tuple"} -> \A i \in DOMAIN v.a : Serializable(v.a[i])
      [] OTHER -> FALSE

\* A bug json.dump does not have: a bool, an int subclass, written as a number.
RECURSIVE JsonOfPyBoolAsInt(_)
JsonOfPyBoolAsInt(v) ==
    CASE v.tag = "int" -> JNumber(v.n)
      [] v.tag = "bool" -> JNumber(IF v.b THEN 1 ELSE 0)
      [] v.tag = "str" -> JString(v.s)
      [] v.tag = "NoneType" -> JNull
      [] v.tag = "dict" -> JObject([k \in DOMAIN v.m |-> JsonOfPyBoolAsInt(v.m[k])])
      [] v.tag \in {"list", "tuple"} -> JArray([i \in DOMAIN v.a |-> JsonOfPyBoolAsInt(v.a[i])])

\* json.dump's encoding of a serializable value.
RECURSIVE JsonOfPy(_)
JsonOfPy(v) ==
    CASE v.tag = "int" -> JNumber(v.n)
      [] v.tag = "bool" -> IF v.b THEN JTrue ELSE JFalse
      [] v.tag = "str" -> JString(v.s)
      [] v.tag = "NoneType" -> JNull
      [] v.tag = "dict" -> JObject([k \in DOMAIN v.m |-> JsonOfPy(v.m[k])])
      [] v.tag \in {"list", "tuple"} -> JArray([i \in DOMAIN v.a |-> JsonOfPy(v.a[i])])

\* json.load's decoding of a document.
RECURSIVE PyOfJson(_)
PyOfJson(j) ==
    CASE j.tag = "number" -> PyInt(j.n)
      [] j.tag = "true" -> PyBool(TRUE)
      [] j.tag = "false" -> PyBool(FALSE)
      [] j.tag = "string" -> PyStr(j.s)
      [] j.tag = "null" -> PyNone
      [] j.tag = "object" -> PyDict([k \in DOMAIN j.m |-> PyOfJson(j.m[k])])
      [] j.tag = "array" -> PyList([i \in DOMAIN j.a |-> PyOfJson(j.a[i])])

\* ------------------------------------------------------ the backing file

Absent == [kind |-> "absent"]              \* no file at the path
Unreadable == [kind |-> "unreadable"]      \* a file that open() refuses (an OSError)
Invalid == [kind |-> "invalid"]            \* text that is not JSON (also a truncated write)
Undecodable == [kind |-> "undecodable"]    \* bytes that are not text in the file's encoding
JsonFile(doc) == [kind |-> "json", doc |-> doc]

\* Path.exists()
exists(f) == f.kind # "absent"

DEFAULT_CONFIG ==
    PyDict(("timeout" :> PyInt(30)) @@ ("retries" :> PyInt(3)) @@ ("batch_size" :> PyInt(100)))

EmptyDict == PyDict(EmptyMap)

\* ------------------------------------------------------- dict objects

\* The dict objects of a run: the module's DEFAULT_CONFIG, the dict a ConfigManager
\* holds, the dict a second ConfigManager holds, the dict DataProcessor.__init__
\* makes, and the dict the caller passes to DataProcessor.
Objects == {"DEFAULT_CONFIG", "store", "other", "proc", "arg"}

\* A bug the code does not have: DEFAULT_CONFIG where the code has
\* DEFAULT_CONFIG.copy(), which binds the module's own dict.
copy_default_shared(fresh) == "DEFAULT_CONFIG"

\* DEFAULT_CONFIG.copy(): a new dict object, fresh.
copy_default(fresh) == fresh

\* ------------------------------------------------------- ConfigManager

\* A bug load_config does not have: no else branch, so that a missing file leaves
\* self.config as it was.
load_config_keep_on_missing(cfg, f) ==
    IF exists(f)
    THEN CASE f.kind = "json" ->
                [config |-> PyOfJson(f.doc), raised |-> "", printed |-> FALSE]
           [] f.kind \in {"invalid", "unreadable"} ->
                [config |-> DEFAULT_CONFIG, raised |-> "", printed |-> TRUE]
           [] f.kind = "undecodable" ->
                [config |-> cfg, raised |-> "UnicodeDecodeError", printed |-> FALSE]
    ELSE [config |-> cfg, raised |-> "", printed |-> FALSE]

\* A bug load_config does not have: the parsed content is merged into the config
\* already held (self.config.update(json.load(f))) instead of replacing it.
load_config_merge(cfg, f) ==
    IF exists(f)
    THEN CASE f.kind = "json" /\ f.doc.tag = "object" /\ IsDict(cfg) ->
                [config |-> PyDict(PyOfJson(f.doc).m @@ cfg.m), raised |-> "",
                 printed |-> FALSE]
           [] f.kind = "json" /\ ~(f.doc.tag = "object" /\ IsDict(cfg)) ->
                [config |-> PyOfJson(f.doc), raised |-> "", printed |-> FALSE]
           [] f.kind \in {"invalid", "unreadable"} ->
                [config |-> DEFAULT_CONFIG, raised |-> "", printed |-> TRUE]
           [] f.kind = "undecodable" ->
                [config |-> cfg, raised |-> "UnicodeDecodeError", printed |-> FALSE]
    ELSE [config |-> DEFAULT_CONFIG, raised |-> "", printed |-> FALSE]

\* load_config: what self.config is afterwards, the exception that escapes ("" when
\* none does) and whether "Error loading config" was printed.
load_config(cfg, f) ==
    IF exists(f)
    THEN CASE f.kind = "json" ->
                [config |-> PyOfJson(f.doc), raised |-> "", printed |-> FALSE]
           [] f.kind \in {"invalid", "unreadable"} ->
                \* json.JSONDecodeError, IOError: caught
                [config |-> DEFAULT_CONFIG, raised |-> "", printed |-> TRUE]
           [] f.kind = "undecodable" ->
                \* UnicodeDecodeError is neither: it leaves the try block
                [config |-> cfg, raised |-> "UnicodeDecodeError", printed |-> FALSE]
    ELSE [config |-> DEFAULT_CONFIG, raised |-> "", printed |-> FALSE]

\* `with open(...) as f:` when open() returns a file (opens) or raises (not): the file
\* is closed when the block is left, by running off its end or by an exception.
with_open(opens) ==
    [opened |-> IF opens THEN 1 ELSE 0, closed |-> IF opens THEN 1 ELSE 0]

\* A bug load_config does not have: f = open(...); self.config = json.load(f);
\* f.close() in place of the with statement, so that f stays open when json.load raises.
load_config_files_close_after(f) ==
    IF exists(f)
    THEN [opened |-> IF f.kind # "unreadable" THEN 1 ELSE 0,
          closed |-> IF f.kind = "json" THEN 1 ELSE 0]
    ELSE [opened |-> 0, closed |-> 0]

\* load_config: the files it opens and closes.  open() raises on an unreadable file;
\* a missing file is not opened at all.
load_config_files(f) ==
    IF exists(f) THEN with_open(f.kind # "unreadable") ELSE [opened |-> 0, closed |-> 0]

\* save_config: the files it opens and closes.
save_config_files(io) == with_open(io # "open_fails")

\* load_config: the object self.config is bound to afterwards, ref being the one it was
\* bound to; json.load makes a new object, fresh, as DEFAULT_CONFIG.copy() does.
load_config_ref(ref, f, fresh) ==
    IF exists(f)
    THEN CASE f.kind = "json" -> fresh
           [] f.kind \in {"invalid", "unreadable"} -> copy_default(fresh)
           [] f.kind = "undecodable" -> ref
    ELSE copy_default(fresh)

\* The object a second ConfigManager, constructed where no file exists, binds.
other_ref == load_config_ref("other", Absent, "other")

\* __init__: self.config = {} and then load_config().
ConfigManager_init(f) == load_config(EmptyDict, f)

\* The three ways the write of save_config can go.
SaveIO == {"ok", "open_fails", "write_fails"}

\* A bug save_config does not have: the except block of load_config copied into it,
\* so that a failed write resets self.config to the defaults.
save_config_reset_on_error(cfg, f, io) ==
    CASE io = "open_fails" ->
           [config |-> DEFAULT_CONFIG, file |-> f, raised |-> "", printed |-> TRUE,
            ret |-> PyNone]
      [] io = "write_fails" ->
           [config |-> DEFAULT_CONFIG, file |-> Invalid, raised |-> "", printed |-> TRUE,
            ret |-> PyNone]
      [] io = "ok" ->
           IF Serializable(cfg)
           THEN [config |-> cfg, file |-> JsonFile(JsonOfPy(cfg)), raised |-> "",
                 printed |-> FALSE, ret |-> PyNone]
           ELSE [config |-> cfg, file |-> Invalid, raised |-> "TypeError",
                 printed |-> FALSE, ret |-> PyNone]

\* A bug save_config does not have: `except IOError: pass`, a failure nobody hears of.
save_config_silent(cfg, f, io) ==
    CASE io = "open_fails" ->
           [config |-> cfg, file |-> f, raised |-> "", printed |-> FALSE, ret |-> PyNone]
      [] io = "write_fails" ->
           [config |-> cfg, file |-> Invalid, raised |-> "", printed |-> FALSE,
            ret |-> PyNone]
      [] io = "ok" ->
           IF Serializable(cfg)
           THEN [config |-> cfg, file |-> JsonFile(JsonOfPy(cfg)), raised |-> "",
                 printed |-> FALSE, ret |-> PyNone]
           ELSE [config |-> cfg, file |-> Invalid, raised |-> "TypeError",
                 printed |-> FALSE, ret |-> PyNone]

\* save_config: self.config and the file afterwards, the exception that escapes and whether
\* "Error saving config" was printed.  open(path, 'w') truncates the file, so a dump
\* that stops half way leaves text that is not JSON.  The method has no return
\* statement: the caller gets None.
save_config(cfg, f, io) ==
    CASE io = "open_fails" ->
           [config |-> cfg, file |-> f, raised |-> "", printed |-> TRUE, ret |-> PyNone]
      [] io = "write_fails" ->
           [config |-> cfg, file |-> Invalid, raised |-> "", printed |-> TRUE,
            ret |-> PyNone]
      [] io = "ok" ->
           IF Serializable(cfg)
           THEN [config |-> cfg, file |-> JsonFile(JsonOfPy(cfg)), raised |-> "",
                 printed |-> FALSE, ret |-> PyNone]
           ELSE \* json.dump raises TypeError, which is no IOError
                [config |-> cfg, file |-> Invalid, raised |-> "TypeError",
                 printed |-> FALSE, ret |-> PyNone]

\* get: self.config.get(key, default)
get(cfg, key, default) ==
    IF IsDict(cfg)
    THEN [ret |-> IF key \in DOMAIN cfg.m THEN cfg.m[key] ELSE default, raised |-> ""]
    ELSE [ret |-> PyNone, raised |-> "AttributeError"]

\* set: self.config[key] = value
set(cfg, key, value) ==
    IF IsDict(cfg)
    THEN [config |-> PyDict((key :> value) @@ cfg.m), raised |-> ""]
    ELSE [config |-> cfg, raised |-> "TypeError"]

\* A bug update does not have: a mapping under a key both sides have is merged key by
\* key instead of being replaced.
update_deep_merge(cfg, new_config) ==
    IF IsDict(cfg)
    THEN [config |->
            PyDict([k \in DOMAIN new_config.m \cup DOMAIN cfg.m |->
                      IF k \notin DOMAIN new_config.m THEN cfg.m[k]
                      ELSE IF k \in DOMAIN cfg.m /\ IsDict(cfg.m[k])
                              /\ IsDict(new_config.m[k])
                      THEN PyDict(new_config.m[k].m @@ cfg.m[k].m)
                      ELSE new_config.m[k]]),
          raised |-> ""]
    ELSE [config |-> cfg, raised |-> "AttributeError"]

\* update: self.config.update(new_config)
update(cfg, new_config) ==
    IF IsDict(cfg)
    THEN [config |-> PyDict(new_config.m @@ cfg.m), raised |-> ""]
    ELSE [config |-> cfg, raised |-> "AttributeError"]

\* ------------------------------------------------------- DataProcessor

\* bool(v) as `config or ...` takes it.
truthy(v) ==
    CASE v.tag = "NoneType" -> FALSE
      [] v.tag = "dict" -> DOMAIN v.m # {}
      [] OTHER -> TRUE

\* datetime.isoformat()
isoformat(t) == ToString(t)

\* A bug __init__ does not have: the argument is laid over the defaults
\* ({**DEFAULT_CONFIG, **config}) instead of being used as it is.
DataProcessor_init_over_defaults(arg) ==
    IF truthy(arg) THEN PyDict(arg.m @@ DEFAULT_CONFIG.m) ELSE DEFAULT_CONFIG

\* __init__: the object self.config is bound to, the caller's own dict when
\* `config or ...` takes it.
DataProcessor_init_ref(arg) == IF truthy(arg) THEN "arg" ELSE copy_default("proc")

\* __init__: self.config = config or DEFAULT_CONFIG.copy()
DataProcessor_init(arg) == IF truthy(arg) THEN arg ELSE DEFAULT_CONFIG

\* A bug _process_item does not have: no item.copy(), the keys are written into the
\* caller's item.
process_item_in_place(item, created) ==
    CASE item.tag = "dict" ->
           LET processed == PyDict(("processed" :> PyBool(TRUE))
                                   @@ ("processed_at" :> PyStr(isoformat(created)))
                                   @@ item.m)
           IN  [raised |-> "", data |-> processed, item |-> processed]
      [] item.tag = "list" ->
           [raised |-> "TypeError",
            error |-> "list indices must be integers or slices, not str", item |-> item]
      [] item.tag = "set" ->
           [raised |-> "TypeError",
            error |-> "'set' object does not support item assignment", item |-> item]
      [] OTHER ->
           [raised |-> "AttributeError",
            error |-> "'" \o item.tag \o "' object has no attribute 'copy'",
            item |-> item]

\* A bug _process_item does not have: processed_at is the time of processing
\* (dt.now()) instead of self.created_at.
process_item_stamp_now(item, created) ==
    CASE item.tag = "dict" ->
           [raised |-> "",
            data |-> PyDict(("processed" :> PyBool(TRUE))
                            @@ ("processed_at" :> PyStr(isoformat(now)))
                            @@ item.m),
            item |-> item]
      [] item.tag = "list" ->
           [raised |-> "TypeError",
            error |-> "list indices must be integers or slices, not str", item |-> item]
      [] item.tag = "set" ->
           [raised |-> "TypeError",
            error |-> "'set' object does not support item assignment", item |-> item]
      [] OTHER ->
           [raised |-> "AttributeError",
            error |-> "'" \o item.tag \o "' object has no attribute 'copy'",
            item |-> item]

\* _process_item: the processed item, or the exception and its message; item is the
\* caller's item as the call leaves it.  The keys are written into processed, the
\* dict item.copy() made, and a failure comes before anything is written.
process_item(item, created) ==
    CASE item.tag = "dict" ->
           [raised |-> "",
            data |-> PyDict(("processed" :> PyBool(TRUE))
                            @@ ("processed_at" :> PyStr(isoformat(created)))
                            @@ item.m),
            item |-> item]
      [] item.tag = "list" ->
           \* item.copy() works, processed["processed"] = True does not
           [raised |-> "TypeError",
            error |-> "list indices must be integers or slices, not str", item |-> item]
      [] item.tag = "set" ->
           [raised |-> "TypeError",
            error |-> "'set' object does not support item assignment", item |-> item]
      [] OTHER ->
           [raised |-> "AttributeError",
            error |-> "'" \o item.tag \o "' object has no attribute 'copy'",
            item |-> item]

Success(data, t) == [status |-> "success", data |-> data, timestamp |-> isoformat(t)]
Error(msg, t) == [status |-> "error", error |-> msg, timestamp |-> isoformat(t)]

\* The places of the success results in a result list.
Successes(results) == {i \in DOMAIN results : results[i].status = "success"}

\* The classes `except Exception` catches.
Exception == {"TypeError", "AttributeError"}

\* A bug the loop does not have: processed_count += 1 after the try statement, so
\* that a failed item counts too.
RECURSIVE batch_loop_count_all(_, _, _, _, _, _)
batch_loop_count_all(data, t, created, i, results, count) ==
    IF i > Len(data)
    THEN [results |-> results, processed_count |-> count, raised |-> "", data |-> data]
    ELSE LET r == process_item(data[i], created)
             after == [data EXCEPT ![i] = r.item]
         IN  IF r.raised = ""
             THEN batch_loop_count_all(after, t, created, i + 1,
                                       Append(results, Success(r.data, t)), count + 1)
             ELSE batch_loop_count_all(after, t, created, i + 1,
                                       Append(results, Error(r.error, t)), count + 1)

\* The loop of process_batch from item i on; t is the clock, which the model takes
\* not to tick while one call runs.
\* raised is the exception that leaves the loop, "" when none does; data is the
\* caller's list, whose items the call has gone through up to i, as they are now.
RECURSIVE batch_loop(_, _, _, _, _, _)
batch_loop(data, t, created, i, results, count) ==
    IF i > Len(data)
    THEN [results |-> results, processed_count |-> count, raised |-> "", data |-> data]
    ELSE LET r == process_item(data[i], created)
             after == [data EXCEPT ![i] = r.item]
         IN  IF r.raised = ""
             THEN batch_loop(after, t, created, i + 1,
                             Append(results, Success(r.data, t)), count + 1)
             ELSE IF r.raised \in Exception
             THEN batch_loop(after, t, created, i + 1,
                             Append(results, Error(r.error, t)), count)
             ELSE [results |-> results, processed_count |-> count, raised |-> r.raised,
                   data |-> after]

\* A bug process_batch does not have: a failed item is dropped (except: continue).
process_batch_skip_failed(data, t, created, count) ==
    LET r == batch_loop(data, t, created, 1, << >>, count)
        ok(x) == x.status = "success"
    IN  [r EXCEPT !.results = SelectSeq(r.results, ok)]

\* A bug process_batch does not have: the count is set to this call's successes
\* instead of being added to.
process_batch_reset_count(data, t, created, count) ==
    LET r == batch_loop(data, t, created, 1, << >>, 0)
    IN  r

\* process_batch: the results returned, self.processed_count afterwards and the
\* exception that reaches the caller.
process_batch(data, t, created, count) ==
    batch_loop(data, t, created, 1, << >>, count)

\* get_stats
get_stats(count, created, cfg, t) ==
    [processed_count |-> count,
     created_at |-> isoformat(created),
     uptime_seconds |-> t - created,
     config |-> cfg]

\* ------------------------------------------------------------- inputs

\* What the file at config_path may hold when the program does not write it.
Files ==
    {Absent, Unreadable, Invalid, Undecodable,
     JsonFile(JObject(EmptyMap)),
     JsonFile(JObject("retries" :> JNumber(5))),
     JsonFile(JArray(<<JNumber(1)>>)),
     JsonFile(JNull)}

Keys == {"retries", "extra"}

Values ==
    {PyInt(5), PyBool(TRUE), PyDict("a" :> PyInt(1)), PyTuple(<<PyInt(1)>>), PySet}

Partials ==
    {PyDict("retries" :> PyInt(5)),
     PyDict(("retries" :> PyInt(5)) @@ ("extra" :> PyStr("x"))),
     PyDict("extra" :> PyDict("b" :> PyInt(2)))}

Defaults == {PyNone, PyStr("x")}

ItemA == PyDict(("id" :> PyInt(1)) @@ ("name" :> PyStr("Alice")))
ItemB == PyDict(("id" :> PyInt(2)) @@ ("processed" :> PyBool(FALSE)))

Items == {ItemA, ItemB, PyNone, PyList(<<PyInt(1)>>)}

Batches == UNION {[1..n -> Items] : n \in 0..MaxBatch}

ConfigArgs == {PyNone, EmptyDict, PyDict("timeout" :> PyInt(5))}

\* The threads that call process_batch on the one processor.
Threads == {"t1", "t2"}

\* The batches they pass.
ThreadBatches == {<<ItemA>>, <<PyNone, ItemA>>, <<ItemB, ItemA>>}

\* ------------------------------------------------------------ the state

NoSave == [valid |-> FALSE]

NoStats == [taken |-> FALSE]

\* A thread that runs no process_batch call.
Idle == [pc |-> "idle"]

StoreInit ==
    \E f \in Files :
        LET r == ConfigManager_init(f)
            h == load_config_files(f)
        IN  /\ r.raised = ""
            /\ file = f
            /\ config = r.config
            /\ out = [op |-> "init", raised |-> r.raised, printed |-> r.printed,
                      saw |-> f, opened |-> h.opened, closed |-> h.closed]
            /\ before = EmptyDict
            /\ saved = NoSave
            /\ open_files = h.opened - h.closed
            /\ config_ref = load_config_ref("store", f, "store")

ProcInit ==
    \E arg \in ConfigArgs :
        /\ now = 0
        /\ proc_config = DataProcessor_init(arg)
        /\ created_at = 0
        /\ processed_count = 0
        /\ proc_out = [op |-> "init", arg |-> arg]
        /\ count_before = 0
        /\ total_success = 0
        /\ proc_ref = DataProcessor_init_ref(arg)
        /\ stats = NoStats
        /\ caller = [op |-> "none"]
        /\ threads = [t \in Threads |-> Idle]

\* The objects after the constructions: the caller's dict holds the argument, the
\* second store the defaults, and each self.config's object what self.config holds.
HeapInit ==
    heap = [o \in Objects |->
              CASE o = config_ref -> config
                [] o = proc_ref /\ o # config_ref -> proc_config
                [] o = "DEFAULT_CONFIG" /\ o \notin {config_ref, proc_ref} -> DEFAULT_CONFIG
                [] o = "other" /\ o \notin {config_ref, proc_ref} -> DEFAULT_CONFIG
                [] o = "arg" /\ o \notin {config_ref, proc_ref} -> proc_out.arg
                [] OTHER -> PyNone]

Init == StoreInit /\ ProcInit /\ HeapInit

\* ------------------------------------------------- ConfigManager calls

Load ==
    LET r == load_config(config, file)
        h == load_config_files(file)
    IN  /\ config' = r.config
        /\ out' = [op |-> "load", raised |-> r.raised, printed |-> r.printed,
                   saw |-> file, opened |-> h.opened, closed |-> h.closed]
        /\ before' = config
        /\ open_files' = open_files + h.opened - h.closed
        /\ config_ref' = load_config_ref(config_ref, file, "store")
        /\ heap' = [heap EXCEPT ![config_ref'] = r.config]
        /\ UNCHANGED <<file, saved>>
        /\ UNCHANGED proc_vars

Save(io) ==
    LET r == save_config(config, file, io)
        h == save_config_files(io)
    IN  /\ file' = r.file
        /\ out' = [op |-> "save", raised |-> r.raised, printed |-> r.printed,
                   ret |-> r.ret, io |-> io, opened |-> h.opened, closed |-> h.closed]
        /\ before' = config
        /\ open_files' = open_files + h.opened - h.closed
        /\ saved' = IF io = "ok" /\ r.raised = ""
                    THEN [valid |-> TRUE, cfg |-> config]
                    ELSE IF r.file = file THEN saved ELSE NoSave
        /\ config' = r.config
        /\ UNCHANGED <<config_ref, heap>>
        /\ UNCHANGED proc_vars

Get(key, default) ==
    LET r == get(config, key, default)
    IN  /\ out' = [op |-> "get", raised |-> r.raised, ret |-> r.ret, key |-> key,
                   default |-> default]
        /\ before' = config
        /\ UNCHANGED <<file, config, saved, open_files, config_ref, heap>>
        /\ UNCHANGED proc_vars

Set(key, value) ==
    LET r == set(config, key, value)
    IN  /\ config' = r.config
        /\ out' = [op |-> "set", raised |-> r.raised, key |-> key, value |-> value]
        /\ before' = config
        /\ heap' = [heap EXCEPT ![config_ref] = r.config]
        /\ UNCHANGED <<file, saved, open_files, config_ref>>
        /\ UNCHANGED proc_vars

Update(new_config) ==
    LET r == update(config, new_config)
    IN  /\ config' = r.config
        /\ out' = [op |-> "update", raised |-> r.raised, new_config |-> new_config]
        /\ before' = config
        /\ heap' = [heap EXCEPT ![config_ref] = r.config]
        /\ UNCHANGED <<file, saved, open_files, config_ref>>
        /\ UNCHANGED proc_vars

\* Something other than the program replaces or removes the file.
FileChange(f) ==
    /\ f # file
    /\ file' = f
    /\ saved' = NoSave
    /\ UNCHANGED <<config, out, before, open_files, config_ref, heap>>
    /\ UNCHANGED proc_vars

StoreNext ==
    \/ Load
    \/ \E io \in SaveIO : Save(io)
    \/ \E key \in Keys : \E default \in Defaults : Get(key, default)
    \/ \E key \in Keys : \E value \in Values : Set(key, value)
    \/ \E new_config \in Partials : Update(new_config)
    \/ \E f \in Files : FileChange(f)

\* ------------------------------------------------- DataProcessor calls

ProcessBatch(data) ==
    LET r == process_batch(data, now, created_at, processed_count)
        n == Cardinality(Successes(r.results))
    IN  /\ r.processed_count <= MaxCount
        /\ processed_count' = r.processed_count
        /\ proc_out' = [op |-> "process_batch", data |-> data, raised |-> r.raised,
                        ret |-> r.results, data_after |-> r.data]
        /\ count_before' = processed_count
        /\ total_success' = total_success + n
        /\ UNCHANGED <<now, proc_config, created_at, proc_ref, stats, caller, heap,
                       threads>>
        /\ UNCHANGED store_vars

GetStats ==
    /\ proc_out' = [op |-> "get_stats",
                    ret |-> get_stats(processed_count, created_at, proc_config, now)]
    /\ stats' = [taken |-> TRUE, ref |-> proc_ref]
    /\ UNCHANGED <<now, proc_config, created_at, processed_count, count_before,
                   total_success, proc_ref, caller, heap, threads>>
    /\ UNCHANGED store_vars

Tick ==
    /\ now < MaxTime
    /\ now' = now + 1
    /\ UNCHANGED <<proc_config, created_at, processed_count, proc_out, count_before,
                   total_success, proc_ref, stats, caller, heap, threads>>
    /\ UNCHANGED store_vars

ProcNext ==
    \/ \E data \in Batches : ProcessBatch(data)
    \/ GetStats
    \/ Tick

\* ------------------------------------- process_batch, thread by thread

\* process_batch as threads run it on one processor, a step at a time.  The
\* statement self.processed_count += 1 is a read of the attribute, an addition and a
\* write of the attribute, and another thread may run between the read and the
\* write; the code takes no lock.

\* What the steps of a thread leave alone.
ThreadFrame ==
    /\ UNCHANGED <<now, proc_config, created_at, proc_out, count_before, proc_ref, stats,
                   caller, heap>>
    /\ UNCHANGED store_vars

\* A thread calls process_batch(data): results = [].
ThreadCalls(t, data) ==
    /\ threads[t].pc = "idle"
    /\ threads' = [threads EXCEPT ![t] = [pc |-> "for", data |-> data, i |-> 1,
                                          results |-> << >>]]
    /\ UNCHANGED <<processed_count, total_success>>
    /\ ThreadFrame

\* The for loop takes item i, _process_item returns and the success result is
\* appended; the increment is still to come.
ThreadItemSucceeds(t) ==
    /\ threads[t].pc = "for"
    /\ threads[t].i <= Len(threads[t].data)
    /\ LET r == process_item(threads[t].data[threads[t].i], created_at)
       IN  /\ r.raised = ""
           /\ threads' = [threads EXCEPT
                            ![t].results = Append(@, Success(r.data, now)),
                            ![t].pc = "read"]
    /\ UNCHANGED <<processed_count, total_success>>
    /\ ThreadFrame

\* The for loop takes item i, _process_item raises and the error result is
\* appended.
ThreadItemFails(t) ==
    /\ threads[t].pc = "for"
    /\ threads[t].i <= Len(threads[t].data)
    /\ LET r == process_item(threads[t].data[threads[t].i], created_at)
       IN  /\ r.raised \in Exception
           /\ threads' = [threads EXCEPT
                            ![t].results = Append(@, Error(r.error, now)),
                            ![t].i = @ + 1]
    /\ UNCHANGED <<processed_count, total_success>>
    /\ ThreadFrame

\* self.processed_count += 1, first half: the thread reads the attribute.
ThreadReadsCount(t) ==
    /\ threads[t].pc = "read"
    /\ threads' = [threads EXCEPT ![t] = [pc |-> "write", data |-> threads[t].data,
                                          i |-> threads[t].i,
                                          results |-> threads[t].results,
                                          read |-> processed_count]]
    /\ UNCHANGED <<processed_count, total_success>>
    /\ ThreadFrame

\* self.processed_count += 1, second half: the thread writes what it read plus one.
ThreadWritesCount(t) ==
    /\ threads[t].pc = "write"
    /\ processed_count' = threads[t].read + 1
    /\ threads' = [threads EXCEPT ![t] = [pc |-> "for", data |-> threads[t].data,
                                          i |-> threads[t].i + 1,
                                          results |-> threads[t].results]]
    /\ UNCHANGED total_success
    /\ ThreadFrame

\* The loop is over: return results.
ThreadReturns(t) ==
    /\ threads[t].pc = "for"
    /\ threads[t].i > Len(threads[t].data)
    /\ threads' = [threads EXCEPT ![t] = [pc |-> "returned",
                                          results |-> threads[t].results]]
    /\ total_success' = total_success + Cardinality(Successes(threads[t].results))
    /\ UNCHANGED processed_count
    /\ ThreadFrame

ThreadNext ==
    \E t \in Threads :
        \/ \E data \in ThreadBatches : ThreadCalls(t, data)
        \/ ThreadItemSucceeds(t)
        \/ ThreadItemFails(t)
        \/ ThreadReadsCount(t)
        \/ ThreadWritesCount(t)
        \/ ThreadReturns(t)

\* --------------------------------------------- the processor's caller

\* The caller writes a key of the config entry of the stats it got from get_stats:
\* stats["config"][key] = value.  The write goes to the object, whatever else is
\* bound to it.
CallerSetsStatsConfig(key, value) ==
    /\ stats.taken
    /\ IsDict(heap[stats.ref])
    /\ heap' = [heap EXCEPT ![stats.ref] = set(heap[stats.ref], key, value).config]
    /\ proc_config' = heap'[proc_ref]
    /\ config' = heap'[config_ref]
    /\ caller' = [op |-> "set_stats_config", key |-> key, value |-> value,
                   config_before |-> proc_config, stats |-> stats,
                   stats_before |-> heap[stats.ref]]
    /\ UNCHANGED <<now, created_at, processed_count, proc_out, count_before,
                   total_success, proc_ref, stats, threads>>
    /\ UNCHANGED <<file, out, before, saved, open_files, config_ref>>

\* The caller writes a key of the dict it passed to DataProcessor: arg[key] = value.
CallerSetsArg(key, value) ==
    /\ IsDict(heap["arg"])
    /\ heap' = [heap EXCEPT !["arg"] = set(heap["arg"], key, value).config]
    /\ proc_config' = heap'[proc_ref]
    /\ config' = heap'[config_ref]
    /\ caller' = [op |-> "set_arg", key |-> key, value |-> value,
                   config_before |-> proc_config, stats |-> stats,
                   stats_before |-> IF stats.taken THEN heap[stats.ref] ELSE PyNone]
    /\ UNCHANGED <<now, created_at, processed_count, proc_out, count_before,
                   total_success, proc_ref, stats, threads>>
    /\ UNCHANGED <<file, out, before, saved, open_files, config_ref>>

CallerKeys == {"timeout"}
CallerValues == {PyInt(9)}

CallerNext ==
    \/ \E key \in CallerKeys : \E value \in CallerValues : CallerSetsStatsConfig(key, value)
    \/ \E key \in CallerKeys : \E value \in CallerValues : CallerSetsArg(key, value)

\* ------------------------------------------------------ specifications

\* The store and the processor together.  Neither reads or writes a variable of the
\* other, so each is checked under a specification of its own below.
Next == StoreNext \/ ProcNext \/ CallerNext \/ ThreadNext

Spec == Init /\ [][Next]_vars

\* The store on its own, beside a processor that is never called.
StoreSpecInit == Init /\ proc_out.arg = PyNone
SpecStore == StoreSpecInit /\ [][StoreNext]_vars

\* The processor on its own, beside a store that is never called.
ProcSpecInit == Init /\ file = Absent /\ proc_out.arg = PyNone
SpecProc == ProcSpecInit /\ [][ProcNext]_vars

\* The store, the processor and the processor's caller on the dict objects they
\* share: a store that fell back to the defaults, a processor constructed with each
\* of the arguments, single calls of each operation.
AliasBatches == {<<ItemA>>, <<PyNone, ItemB>>}
AliasKey == "retries"
AliasValue == PyInt(5)
AliasPartial == PyDict("retries" :> PyInt(5))
AliasFiles == {Absent, Invalid}

AliasNext ==
    \/ Load
    \/ Save("ok")
    \/ Set(AliasKey, AliasValue)
    \/ Update(AliasPartial)
    \/ \E f \in AliasFiles : FileChange(f)
    \/ \E data \in AliasBatches : ProcessBatch(data)
    \/ GetStats
    \/ CallerNext

AliasSpecInit == Init /\ file = Absent
SpecAlias == AliasSpecInit /\ [][AliasNext]_vars

\* One processor, each thread calling process_batch once.
ThreadSpecInit == Init /\ file = Absent /\ proc_out.arg = PyNone
SpecThreads == ThreadSpecInit /\ [][ThreadNext]_vars

\* config and proc_config are what the heap holds for the objects they are bound to.
HeapAgrees == config = heap[config_ref] /\ proc_config = heap[proc_ref]

\* ---------------------------------------------------------------- claims

\* The items of a batch on which _process_item fails: those that are no dict.
Fails(item) == ~IsDict(item)

\* C1: process_batch returns exactly one result per input item, in input order: the
\* i-th result is a success that carries the i-th item's own keys and values when the
\* item is a dict, and an error with the message of that item's failure when it is
\* not; nothing is skipped, duplicated or reordered.
C1_OrderAndLength ==
    proc_out.op = "process_batch" =>
        LET d == proc_out.data
            r == proc_out.ret
        IN  /\ Len(r) = Len(d)
            /\ \A i \in 1..Len(d) :
                 /\ IsDict(d[i]) =>
                      /\ r[i].status = "success"
                      /\ \A k \in DOMAIN d[i].m \ {"processed", "processed_at"} :
                           /\ k \in DOMAIN r[i].data.m
                           /\ r[i].data.m[k] = d[i].m[k]
                 /\ d[i] = PyNone =>
                      /\ r[i].status = "error"
                      /\ r[i].error = "'NoneType' object has no attribute 'copy'"
                 /\ d[i].tag = "list" =>
                      /\ r[i].status = "error"
                      /\ r[i].error = "list indices must be integers or slices, not str"

\* C1's case: a batch of three different items, a failing one first.
C1_Witness ==
    /\ proc_out.op = "process_batch"
    /\ proc_out.data = <<PyNone, ItemB, ItemA>>
    /\ Len(proc_out.ret) = 3
    /\ proc_out.ret[1].status = "error"
    /\ proc_out.ret[2].data.m["id"] = PyInt(2)
    /\ proc_out.ret[3].data.m["id"] = PyInt(1)

\* C2: whatever items of a batch fail, process_batch raises nothing, result i is an
\* error with a message exactly when item i fails and a success otherwise, a success
\* carries its own item's data whatever the other items did, and processed_count
\* grows over the call by the number of items that did not fail.
C2_FailureIsolation ==
    proc_out.op = "process_batch" =>
        LET d == proc_out.data
            r == proc_out.ret
        IN  /\ proc_out.raised = ""
            /\ DOMAIN r = DOMAIN d
            /\ \A i \in DOMAIN d :
                 IF Fails(d[i])
                 THEN r[i].status = "error" /\ r[i].error # ""
                 ELSE /\ r[i].status = "success"
                      /\ r[i].data.m["id"] = d[i].m["id"]
                      /\ r[i].data.m["processed"] = PyBool(TRUE)
            /\ processed_count - count_before
                 = Cardinality({i \in DOMAIN d : ~Fails(d[i])})

\* C2's case: [A, B, C] where only B fails; the count grows by 2.
C2_Witness ==
    /\ proc_out.op = "process_batch"
    /\ proc_out.data = <<ItemA, PyNone, ItemB>>
    /\ proc_out.ret[1].status = "success"
    /\ proc_out.ret[2].status = "error"
    /\ proc_out.ret[3].status = "success"
    /\ processed_count = count_before + 2

\* C3: processed_count is 0 before any success, is never below what it was when
\* the last call began, and always equals the number of success results all
\* process_batch calls have returned; get_stats reports that number.
C3_CountIsTotalSuccess ==
    /\ processed_count = total_success
    /\ processed_count >= count_before
    /\ proc_out.op = "init" => processed_count = 0
    /\ proc_out.op = "get_stats" => proc_out.ret.processed_count = total_success

\* C3's case: get_stats after two batches that both had successes.
C3_Witness ==
    /\ proc_out.op = "get_stats"
    /\ count_before > 0
    /\ processed_count > count_before
    /\ proc_out.ret.processed_count = processed_count

\* A load: the one __init__ makes, or a later call of load_config.
Loaded == out.op \in {"init", "load"}

Corrupt(f) ==
    \/ f.kind \in {"unreadable", "invalid", "undecodable"}
    \/ f.kind = "json" /\ f.doc.tag # "object"

\* C5: a load from a file that is unreadable, or is not text, or is not JSON, or is
\* JSON but no mapping, leaves the defaults, reports a load error and raises nothing.
C5_CorruptFileFallsBack ==
    Loaded /\ Corrupt(out.saw) =>
        /\ config = DEFAULT_CONFIG
        /\ out.printed
        /\ out.raised = ""

\* C6: the store's config is always a mapping, and never an empty one.
C6_ConfigValidNonEmpty ==
    /\ IsDict(config)
    /\ DOMAIN config.m # {}

\* The values C7 is about: strings, numbers, booleans, and mappings of them.
RECURSIVE Plain(_)
Plain(v) ==
    CASE v.tag \in {"int", "str", "bool"} -> TRUE
      [] v.tag = "dict" -> \A k \in DOMAIN v.m : Plain(v.m[k])
      [] OTHER -> FALSE

\* C7: when the file holds what a successful save_config wrote from a config c of
\* plain values, load_config leaves a config equal to c.
C7_RoundTrip ==
    out.op = "load" /\ saved.valid /\ IsDict(saved.cfg) /\ Plain(saved.cfg) =>
        /\ out.raised = ""
        /\ config = saved.cfg

\* C7's case: a config with a number, a string, a boolean and a nested mapping was
\* saved, changed in memory, and loaded back.
C7_Witness ==
    /\ out.op = "load"
    /\ saved.valid
    /\ IsDict(saved.cfg)
    /\ Plain(saved.cfg)
    /\ DOMAIN saved.cfg.m = {"timeout", "retries", "batch_size", "extra"}
    /\ saved.cfg.m["retries"] = PyBool(TRUE)
    /\ saved.cfg.m["extra"] = PyDict("a" :> PyInt(1))
    /\ before # saved.cfg
    /\ config = saved.cfg

\* C8: save_config leaves the config as it was when the call began, however the
\* write went.
C8_SaveKeepsConfig ==
    out.op = "save" => config = before

\* C8's case: a save of a changed config whose write failed half way.
C8_Witness ==
    /\ out.op = "save"
    /\ out.io = "write_fails"
    /\ file = Invalid
    /\ config # DEFAULT_CONFIG
    /\ config = before

\* What the caller of a save_config that succeeded receives: no exception, and None.
SuccessOutcome == [raised |-> "", ret |-> PyNone]

C10_NoFatalOutcome ==
    /\ out.raised = ""
    /\ proc_out.op = "process_batch" => proc_out.raised = ""

\* C11: update(partial) on a config that is a mapping is a shallow merge: afterwards
\* every key of partial holds partial's value (a mapping under the key is replaced
\* whole, not merged into the one that was there), every other key the config had holds
\* the value it had, and the config has no further key; update({retries: 5}) on the
\* defaults gives {timeout: 30, retries: 5, batch_size: 100}.
C11_UpdateShallowMerge ==
    out.op = "update" /\ IsDict(before) =>
        LET p == out.new_config.m
        IN  /\ out.raised = ""
            /\ IsDict(config)
            /\ DOMAIN config.m = DOMAIN before.m \cup DOMAIN p
            /\ \A k \in DOMAIN p : config.m[k] = p[k]
            /\ \A k \in DOMAIN before.m \ DOMAIN p : config.m[k] = before.m[k]
            /\ before = DEFAULT_CONFIG /\ out.new_config = PyDict("retries" :> PyInt(5)) =>
                  config = PyDict(("timeout" :> PyInt(30)) @@ ("retries" :> PyInt(5))
                                  @@ ("batch_size" :> PyInt(100)))

\* C11's case: a mapping under "extra" is updated with another mapping under "extra",
\* beside keys the update does not name.
C11_Witness ==
    /\ out.op = "update"
    /\ IsDict(before)
    /\ DOMAIN before.m = {"timeout", "retries", "batch_size", "extra"}
    /\ before.m["extra"] = PyDict("a" :> PyInt(1))
    /\ out.new_config = PyDict("extra" :> PyDict("b" :> PyInt(2)))
    /\ config.m["extra"] = PyDict("b" :> PyInt(2))
    /\ config.m["timeout"] = PyInt(30)

\* C12: get(key, default) returns the stored value when the key is present and the
\* default exactly when it is absent, never fails and leaves the config as it was;
\* set(key, value) makes the key hold the value and leaves every other key alone.
C12_GetSetTotal ==
    /\ out.op = "get" =>
          /\ out.raised = ""
          /\ config = before
          /\ out.ret = IF out.key \in DOMAIN before.m THEN before.m[out.key]
                       ELSE out.default
    /\ out.op = "set" =>
          /\ out.raised = ""
          /\ get(config, out.key, PyNone).ret = out.value
          /\ get(config, out.key, PyStr("x")).ret = out.value
          /\ \A k \in DOMAIN before.m \ {out.key} :
                k \in DOMAIN config.m /\ config.m[k] = before.m[k]

\* What C12 says of get and set holds of every call on a config that is a mapping.
GetSetOnMapping == IsDict(before) => C12_GetSetTotal

\* C16: a load that parses a JSON object leaves exactly the object's content as the
\* config: the config has the file's keys and no other, neither one of the config it
\* replaces nor one of the defaults, and each key holds the file's value.
C16_LoadReplacesWholesale ==
    out.op = "load" /\ out.saw.kind = "json" /\ out.saw.doc.tag = "object" =>
        /\ out.raised = ""
        /\ IsDict(config)
        /\ DOMAIN config.m = DOMAIN out.saw.doc.m
        /\ \A k \in DOMAIN config.m : config.m[k] = PyOfJson(out.saw.doc.m[k])

\* C16's case: a config with the default keys and "extra" is replaced by a file that
\* holds "retries" alone.
C16_Witness ==
    /\ out.op = "load"
    /\ out.saw = JsonFile(JObject("retries" :> JNumber(5)))
    /\ IsDict(before)
    /\ DOMAIN before.m = {"timeout", "retries", "batch_size", "extra"}
    /\ config = PyDict("retries" :> PyInt(5))

\* C18: process_batch leaves its input as it was: after the call the list has the
\* same length and each item has exactly the keys and values it had before, while
\* the processed and processed_at that the call adds are in the data of the results.
C18_InputUntouched ==
    proc_out.op = "process_batch" =>
        /\ Len(proc_out.data_after) = Len(proc_out.data)
        /\ \A i \in 1..Len(proc_out.data) : proc_out.data_after[i] = proc_out.data[i]

\* C18's case: an item with no processed_at succeeds; the result has the key, the
\* item still has not.
C18_Witness ==
    /\ proc_out.op = "process_batch"
    /\ proc_out.data = <<ItemA, PyNone, ItemB>>
    /\ proc_out.ret[1].status = "success"
    /\ "processed_at" \in DOMAIN proc_out.ret[1].data.m
    /\ "processed_at" \notin DOMAIN proc_out.data_after[1].m
    /\ proc_out.data_after[3].m["processed"] = PyBool(FALSE)

\* C20: created_at never changes after construction, and the data of every success
\* result is the item's keys and values with processed = True and processed_at =
\* created_at's text over them, whatever processed or processed_at the item had and
\* whatever the clock reads when the item is processed.
C20_StampIsCreatedAt ==
    /\ [](proc_out.op = "process_batch" =>
            \A i \in 1..Len(proc_out.data) :
                IsDict(proc_out.data[i]) =>
                    LET x == proc_out.ret[i].data.m
                        d == proc_out.data[i].m
                    IN  /\ proc_out.ret[i].status = "success"
                        /\ DOMAIN x = DOMAIN d \cup {"processed", "processed_at"}
                        /\ x["processed"] = PyBool(TRUE)
                        /\ x["processed_at"] = PyStr(isoformat(created_at))
                        /\ \A k \in DOMAIN d \ {"processed", "processed_at"} :
                              x[k] = d[k])
    /\ [][created_at' = created_at]_vars

\* C20's case: a batch processed after the clock has moved on from construction,
\* with an item that brings a processed key of its own.
C20_Witness ==
    /\ proc_out.op = "process_batch"
    /\ now > created_at
    /\ proc_out.data = <<ItemB, ItemA>>
    /\ proc_out.ret[1].data.m["processed"] = PyBool(TRUE)
    /\ proc_out.ret[1].data.m["processed_at"] = PyStr("0")
    /\ proc_out.ret[2].data.m["processed_at"] = PyStr("0")
    /\ proc_out.ret[1].timestamp = "1"

\* C15: load_config and save_config close every file they open before they return
\* or raise, whichever way they end (success, a parse failure, an I/O failure, an
\* exception that reaches the caller): between two calls no file is open.
C15_FilesClosed ==
    /\ open_files = 0
    /\ out.op \in {"init", "load", "save"} => out.closed = out.opened

\* C15's case: a load that opened the file and ended in an exception that reached
\* the caller.
C15_Witness ==
    /\ out.op = "load"
    /\ out.raised = "UnicodeDecodeError"
    /\ out.opened = 1
    /\ open_files = 0

\* C13: what get_stats returns is a snapshot of its own: changing the config
\* afterwards (here through the dict the processor was constructed with) leaves the
\* config entry of the stats the caller holds as it was, and the caller's writing a
\* key of that config entry leaves the processor's config as it was.
C13_StatsIsSnapshot ==
    /\ caller.op = "set_arg" /\ caller.stats.taken /\ stats = caller.stats =>
          heap[stats.ref] = caller.stats_before
    /\ caller.op = "set_stats_config" => proc_config = caller.config_before

\* C17: the module's DEFAULT_CONFIG holds timeout 30, retries 3, batch_size 100 after
\* every run of constructions, loads, saves, set, update, process_batch, get_stats and
\* writes of the caller to the dicts it holds, and a second store that fell back to
\* the defaults still reads the defaults after the first store's set and update.
C17_DefaultsUntouched ==
    /\ heap["DEFAULT_CONFIG"] =
          PyDict(("timeout" :> PyInt(30)) @@ ("retries" :> PyInt(3))
                 @@ ("batch_size" :> PyInt(100)))
    /\ heap[other_ref] = DEFAULT_CONFIG

\* C17's case: the store fell back to the defaults and then changed retries, and the
\* caller wrote to the config entry of the stats of a processor that was given no
\* config.
C17_Witness ==
    /\ out.op \in {"set", "update"}
    /\ config = PyDict(("timeout" :> PyInt(30)) @@ ("retries" :> PyInt(5))
                       @@ ("batch_size" :> PyInt(100)))
    /\ caller.op = "set_stats_config"
    /\ proc_ref = "proc"
    /\ proc_config.m["timeout"] = PyInt(9)
    /\ heap["DEFAULT_CONFIG"].m["timeout"] = PyInt(30)

\* C19: a processor constructed with a non-empty mapping has that very mapping as
\* its config; one constructed with None or with an empty mapping has a new dict
\* that holds the defaults; and no call of process_batch or get_stats changes the
\* config or any other dict.
C19_ConfigBinding ==
    /\ [](proc_out.op = "init" /\ caller.op = "none" =>
            IF proc_out.arg \in {PyNone, EmptyDict}
            THEN /\ proc_ref \notin {"DEFAULT_CONFIG", "arg"}
                 /\ proc_config = DEFAULT_CONFIG
            ELSE /\ proc_ref = "arg"
                 /\ proc_config = proc_out.arg)
    /\ [][proc_out' # proc_out => proc_config' = proc_config /\ heap' = heap]_vars

\* C19's case: a processor constructed with {timeout: 5} has processed a batch and
\* returned its stats.
C19_Witness ==
    /\ proc_ref = "arg"
    /\ proc_config = PyDict("timeout" :> PyInt(5))
    /\ processed_count > 0
    /\ proc_out.op = "get_stats"
    /\ proc_out.ret.config = PyDict("timeout" :> PyInt(5))

\* C14: when the process_batch calls of several threads on one processor have all
\* returned, processed_count is the number of success results they returned: no
\* increment is lost, however the reads and writes of the field interleave.
C14_NoLostUpdate ==
    (\A t \in Threads : threads[t].pc = "returned") => processed_count = total_success

====
